---------------------------- MODULE Spec2Model ----------------------------
(* A model of IPTU Checker: the status classifier (geospatial_analysis.py), *)
(* the geocoding, imagery and measurement fallbacks (data_processing.py,    *)
(* earth_engine_utils.py, image_analysis.py), the analysis pipeline         *)
(* (main.py), the record store (database.py) and the REST API (api.py).     *)
(*                                                                          *)
(* Areas are whole square meters.  A Python float quotient is kept as an    *)
(* exact fraction [num, den] with den > 0, so every comparison is exact;    *)
(* binary rounding of the floats is outside the model.                      *)
EXTENDS Integers, Sequences, FiniteSets, TLC

VARIABLES
    config,     \* the module-level flags set at import time
    ds,         \* one call of determine_status: its arguments and its outcome
    geo,        \* one call of get_coordinates: its arguments and its outcome
    meas,       \* one call of process_land_measurement: its arguments and its outcome
    ap,         \* one call of main.analyze_property: its argument and its outcome
    store,      \* the rows of table land_records, in id order
    run,        \* the run_analysis in progress: its properties, position and count
    conv,       \* a conversion of a pixel area to square metres under examination
    img,        \* a call of get_satellite_image under examination
    sv,         \* the last call of save_terrain_data under examination
    last        \* the last operation performed on the system and what it answered

vars == <<config, ds, geo, meas, ap, store, run, conv, img, sv, last>>

-----------------------------------------------------------------------------
(* Bounds of the model *)

MaxArea == 21       \* areas passed to determine_status range over -MaxArea..MaxArea
MaxTol == 6         \* tolerances range over -MaxTol..MaxTol

MaxAddr == 5        \* addresses are 1..MaxAddr
MaxLat == 1         \* latitudes a geocoder answers with are 0..MaxLat
MaxLng == 1         \* longitudes a geocoder answers with are 1..MaxLng
MaxReal == 2        \* areas a measurement method answers with are 0..MaxReal
MaxReg == 1         \* registered areas of the properties analysed are 0..MaxReg
MaxPropAddr == 1    \* addresses of the properties analysed are 1..MaxPropAddr
MaxPixels == 17     \* pixel areas converted to square metres are 0..MaxPixels
MaxProps == 2       \* a run analyses at most MaxProps properties
MaxRecords == 2     \* runs are started while the store stays within MaxRecords rows

(* Program constants *)

DefaultTolerance == 5
DefaultLimit == 100
OpenCvZoom == 19
YoloZoom == 19
TfZoom == 19
GoogleZoom == 19
Sentinel2Scale == 10
Landsat8Scale == 30
ImageSize == 640
TfInputSize == 256
MaxBatch == 100

Areas == (0 - MaxArea)..MaxArea
Tolerances == (0 - MaxTol)..MaxTol
Addresses == 1..MaxAddr
Lats == 0..MaxLat
Lngs == 1..MaxLng
RealAreas == 0..MaxReal
RegAreas == 0..MaxReg
PropAddresses == 1..MaxPropAddr

-----------------------------------------------------------------------------
(* Python values that may be None *)

PyNone == [none |-> TRUE, v |-> 0]

Num(v) == [none |-> FALSE, v |-> v]

IsNone(x) == x.none

-----------------------------------------------------------------------------
(* Module-level flags, set when the modules are imported and never changed  *)
(* afterwards:                                                              *)
(*   GOOGLE_MAPS_AVAILABLE  data_processing: an API key is configured       *)
(*   YOLO_AVAILABLE         image_analysis: ultralytics could be imported   *)
(*   TF_AVAILABLE           image_analysis: tensorflow_analysis could be    *)
(*                          imported                                        *)
(*   TF_INSTALLED           tensorflow_analysis.TF_AVAILABLE: tensorflow    *)
(*                          itself could be imported                        *)
(*   EE_IMPORTABLE          data_processing: earth_engine_utils can be      *)
(*                          imported (no ImportError in get_satellite_image)*)
(*   EE_AVAILABLE           earth_engine_utils: ee could be imported        *)

Configs == [GOOGLE_MAPS_AVAILABLE : BOOLEAN, YOLO_AVAILABLE : BOOLEAN,
            TF_AVAILABLE : BOOLEAN, TF_INSTALLED : BOOLEAN,
            EE_IMPORTABLE : BOOLEAN, EE_AVAILABLE : BOOLEAN]

DefaultConfig == [GOOGLE_MAPS_AVAILABLE |-> TRUE, YOLO_AVAILABLE |-> TRUE,
                  TF_AVAILABLE |-> TRUE, TF_INSTALLED |-> TRUE,
                  EE_IMPORTABLE |-> TRUE, EE_AVAILABLE |-> TRUE]

\* the configurations that differ from the default in the given flags only
ConfigsVarying(fields) ==
    {c \in Configs : \A f \in DOMAIN DefaultConfig \ fields : c[f] = DefaultConfig[f]}

-----------------------------------------------------------------------------
(* Exact arithmetic on quotients *)

Abs(x) == IF x < 0 THEN 0 - x ELSE x

Sgn(x) == IF x < 0 THEN 0 - 1 ELSE IF x > 0 THEN 1 ELSE 0

\* n / d for d # 0, with the sign carried by the numerator
Rat(n, d) == IF d < 0 THEN [num |-> 0 - n, den |-> 0 - d] ELSE [num |-> n, den |-> d]

RatTimes(r, k) == [num |-> r.num * k, den |-> r.den]

RatAbs(r) == [num |-> Abs(r.num), den |-> r.den]

\* r <= t and r > t for a quotient r and a number t
RatLE(r, t) == r.num <= t * r.den

RatGT(r, t) == r.num > t * r.den

\* round(r, 2) in hundredths: the nearest, a tie going to the even neighbour
Round2(r) ==
    LET n == r.num * 100
        q == n \div r.den
        rest == n - q * r.den
    IN  IF 2 * rest < r.den THEN q
        ELSE IF 2 * rest > r.den THEN q + 1
        ELSE IF q % 2 = 0 THEN q ELSE q + 1

-----------------------------------------------------------------------------
(* determine_status: the outcome of a call is what it returns or raises,    *)
(* and the divisors of the divisions it performed, in order.                *)

NoOutcome == [result |-> "none", exception |-> "none", divisors |-> <<>>]

Return(value, divisors) == [result |-> value, exception |-> "none", divisors |-> divisors]

Raise(exception, divisors) == [result |-> "none", exception |-> exception, divisors |-> divisors]

IsCompliantStrict(percent_difference, tolerance) ==
    RatAbs(percent_difference).num < tolerance * percent_difference.den

IsCompliant(percent_difference, tolerance) ==
    RatLE(RatAbs(percent_difference), tolerance)

IsUnderdeclaredSwapped(percent_difference, tolerance) ==
    ~RatGT(percent_difference, tolerance)

IsUnderdeclared(percent_difference, tolerance) ==
    RatGT(percent_difference, tolerance)

\* the statements after the zero check: a float division by 0 raises
Classify(real_area, registered_area, tolerance) ==
    LET difference == real_area - registered_area IN
    IF registered_area = 0
    THEN Raise("ZeroDivisionError", <<registered_area>>)
    ELSE LET percent_difference == RatTimes(Rat(difference, registered_area), 100) IN
         IF IsCompliant(percent_difference, tolerance)
         THEN Return("compliant", <<registered_area>>)
         ELSE IF IsUnderdeclared(percent_difference, tolerance)
              THEN Return("underdeclared", <<registered_area>>)
              ELSE Return("overdeclared", <<registered_area>>)

determine_status_unguarded(real_area, registered_area, tolerance) ==
    Classify(real_area, registered_area, tolerance)

determine_status(real_area, registered_area, tolerance) ==
    IF registered_area = 0
    THEN Return("error", <<>>)
    ELSE Classify(real_area, registered_area, tolerance)

-----------------------------------------------------------------------------
(* Geocoding (data_processing.py).  A provider answers a query with a       *)
(* location, with nothing, or by raising.  The outcome of a call is the     *)
(* (lat, lng) pair returned, the exception that escaped, and the queries    *)
(* made, in order.                                                          *)

GeoReplies ==
    {[kind |-> "found", lat |-> lat, lng |-> lng] : lat \in Lats, lng \in Lngs}
        \cup {[kind |-> "empty", lat |-> 0, lng |-> 0], [kind |-> "raise", lat |-> 0, lng |-> 0]}

Query(provider, address, reply) ==
    [provider |-> provider, address |-> address, reply |-> reply.kind]

GeoOutcome(lat, lng, queries) ==
    [lat |-> lat, lng |-> lng, exception |-> "none", queries |-> queries]

NoGeoOutcome == GeoOutcome(PyNone, PyNone, <<>>)

get_coordinates_osm(address, osm) ==
    LET queries == <<Query("osm", address, osm)>> IN
    IF osm.kind = "found"
    THEN GeoOutcome(Num(osm.lat), Num(osm.lng), queries)
    ELSE GeoOutcome(PyNone, PyNone, queries)    \* not found, or the exception is caught

\* a call made after an earlier query: its queries follow the earlier ones
After(queries, outcome) == [outcome EXCEPT !.queries = queries \o outcome.queries]

get_coordinates_without_fallback(address, use_osm, flags, google, osm) ==
    IF use_osm \/ ~flags.GOOGLE_MAPS_AVAILABLE
    THEN get_coordinates_osm(address, osm)
    ELSE LET queries == <<Query("google", address, google)>> IN
         IF google.kind = "found"
         THEN GeoOutcome(Num(google.lat), Num(google.lng), queries)
         ELSE GeoOutcome(PyNone, PyNone, queries)

get_coordinates(address, use_osm, flags, google, osm) ==
    IF use_osm \/ ~flags.GOOGLE_MAPS_AVAILABLE
    THEN get_coordinates_osm(address, osm)
    ELSE LET queries == <<Query("google", address, google)>> IN
         IF google.kind = "found"
         THEN GeoOutcome(Num(google.lat), Num(google.lng), queries)
         ELSE After(queries, get_coordinates_osm(address, osm))  \* empty result, or except

-----------------------------------------------------------------------------
(* Measurement (image_analysis.py, tensorflow_analysis.py).  A method       *)
(* answers with an area, with None, or by raising.  The outcome of a call   *)
(* of process_land_measurement is the value returned, the exception that    *)
(* escaped, and the methods run, in order, each with its answer.            *)

Area(v) == [kind |-> "area", v |-> v, exc |-> "none"]

NoArea == [kind |-> "none", v |-> 0, exc |-> "none"]

RaisedWith(exc) == [kind |-> "raise", v |-> 0, exc |-> exc]

Raised == RaisedWith("Exception")       \* a failure inside a method or a library

\* what the computer-vision work of a method can come to
YoloReplies == {Area(v) : v \in RealAreas} \cup {Raised}

TfReplies == {Area(v) : v \in RealAreas} \cup {NoArea, Raised}

OpenCvReplies == {Area(v) : v \in RealAreas} \cup {NoArea, Raised}

Methods == {"auto", "opencv", "yolo", "tensorflow", "other"}

Ran(method, answer) == [method |-> method, answer |-> answer]

MeasOutcome(answer, runs) ==
    [result |-> IF answer.kind = "area" THEN Num(answer.v) ELSE PyNone,
     exception |-> answer.exc,
     runs |-> runs]

NoMeasOutcome == [result |-> PyNone, exception |-> "none", runs |-> <<>>]

\* raises ImportError before any work when ultralytics is missing
process_image_with_yolo(flags, yolo) ==
    IF ~flags.YOLO_AVAILABLE THEN RaisedWith("ImportError") ELSE yolo

\* returns None before any work when tensorflow is missing
segment_land_tf(flags, tf) ==
    IF ~flags.TF_INSTALLED THEN NoArea ELSE tf

process_image_with_segmentation(opencv) == opencv

\* what a try/except around a method leaves in real_area
Caught(answer) == IF answer.kind = "raise" THEN NoArea ELSE answer

\* the runs of method 'auto', in order, each with its answer
auto_runs_tf_always(flags, yolo, tf, opencv) ==
    LET first == IF flags.YOLO_AVAILABLE
                 THEN <<Ran("yolo", process_image_with_yolo(flags, yolo))>>
                 ELSE <<>>
        second == IF flags.TF_AVAILABLE
                  THEN first \o <<Ran("tensorflow", segment_land_tf(flags, tf))>>
                  ELSE first
        real_area == IF second = <<>> THEN NoArea ELSE Caught(second[Len(second)].answer)
    IN  IF real_area.kind = "none"
        THEN second \o <<Ran("opencv", process_image_with_segmentation(opencv))>>
        ELSE second

auto_runs(flags, yolo, tf, opencv) ==
    LET first == IF flags.YOLO_AVAILABLE
                 THEN <<Ran("yolo", process_image_with_yolo(flags, yolo))>>
                 ELSE <<>>
        after_yolo == IF first = <<>> THEN NoArea ELSE Caught(first[1].answer)
        second == IF after_yolo.kind = "none" /\ flags.TF_AVAILABLE
                  THEN first \o <<Ran("tensorflow", segment_land_tf(flags, tf))>>
                  ELSE first
        real_area == IF second = <<>> THEN NoArea ELSE Caught(second[Len(second)].answer)
    IN  IF real_area.kind = "none"
        THEN second \o <<Ran("opencv", process_image_with_segmentation(opencv))>>
        ELSE second

process_land_measurement_unchecked(image, method, flags, yolo, tf, opencv) ==
    LET runs == IF method = "auto" THEN auto_runs(flags, yolo, tf, opencv)
                ELSE <<Ran("opencv", process_image_with_segmentation(opencv))>>
    IN  MeasOutcome(runs[Len(runs)].answer, runs)

\* image is "present" when image_path names an existing file, else "missing"
process_land_measurement(image, method, flags, yolo, tf, opencv) ==
    IF image # "present"
    THEN MeasOutcome(RaisedWith("ValueError"), <<>>)
    ELSE LET runs ==
                 IF method = "tensorflow" /\ flags.TF_AVAILABLE
                 THEN <<Ran("tensorflow", segment_land_tf(flags, tf))>>
                 ELSE IF method = "yolo" /\ flags.YOLO_AVAILABLE
                 THEN <<Ran("yolo", process_image_with_yolo(flags, yolo))>>
                 ELSE IF method = "opencv"
                 THEN <<Ran("opencv", process_image_with_segmentation(opencv))>>
                 ELSE IF method = "auto"
                 THEN auto_runs(flags, yolo, tf, opencv)
                 ELSE <<Ran("opencv", process_image_with_segmentation(opencv))>>
             real_area == runs[Len(runs)].answer
         IN  IF real_area.kind = "none"
             THEN MeasOutcome(RaisedWith("ValueError"), runs)
             ELSE MeasOutcome(real_area, runs)     \* the area, or the method's exception

-----------------------------------------------------------------------------
(* Pixel area to square metres (image_analysis.py, tensorflow_analysis.py). *)
(* 156543.03392 squared and 2^38 do not fit the integers at hand, so a      *)
(* quantity is kept in factors: num / den * base^k / 2^shift, base being    *)
(* the literal 156543.03392.  Latitudes are degrees with a rational cosine. *)

Latitudes == {0 - 60, 0, 60}

PixelAreas == 0..MaxPixels

Cosine(lat) == IF lat = 0 THEN Rat(1, 1) ELSE Rat(1, 2)

Quantity(num, den, k, shift) ==
    [num |-> num, den |-> den, base |-> "156543.03392", k |-> k, shift |-> shift]

\* 156543.03392 * math.cos(math.radians(lat)) / (2 ** zoom)
MetersPerPixel(lat, zoom) == Quantity(Cosine(lat).num, Cosine(lat).den, 1, zoom)

Squared(q) == Quantity(q.num * q.num, q.den * q.den, 2 * q.k, 2 * q.shift)

Scaled(n, q) == Quantity(n * q.num, q.den, q.k, q.shift)

Pow2(n) == IF n <= 0 THEN 1 ELSE 2 ^ n

\* the two quantities are the same number
SameQuantity(p, q) ==
    /\ p.base = q.base
    /\ p.k = q.k \/ (p.num = 0 /\ q.num = 0)
    /\ p.num * q.den * Pow2(q.shift - p.shift) = q.num * p.den * Pow2(p.shift - q.shift)

\* what a method computes: the scale it assumed, area_m2, and the value it
\* returns, round(area_m2, 2)
Converted(base_meters_per_pixel, area_pixels) ==
    LET area_m2 == Scaled(area_pixels, Squared(base_meters_per_pixel)) IN
    [base_meters_per_pixel |-> base_meters_per_pixel, area_m2 |-> area_m2,
     returned |-> [round |-> 2, of |-> area_m2]]

NoConverted == Converted(Quantity(0, 1, 0, 0), 0)

\* process_image_with_segmentation, lines 48-74
opencv_area_m2(contour_area_pixels, lat) ==
    Converted(MetersPerPixel(lat, OpenCvZoom), contour_area_pixels)

\* process_image_with_yolo, lines 113-135
yolo_area_m2(total_area_pixels, lat) ==
    Converted(MetersPerPixel(lat, YoloZoom), total_area_pixels)

tf_area_m2_one_zoom_out(area_pixels, lat) ==
    Converted(MetersPerPixel(lat, TfZoom - 1), area_pixels)

\* segment_land_tf, lines 153-161, lat given
tf_area_m2(area_pixels, lat) ==
    Converted(MetersPerPixel(lat, TfZoom), area_pixels)

ConvMethods == {"opencv", "yolo", "tensorflow"}

ConvertWith(method, area_pixels, lat) ==
    CASE method = "opencv" -> opencv_area_m2(area_pixels, lat)
      [] method = "yolo" -> yolo_area_m2(area_pixels, lat)
      [] method = "tensorflow" -> tf_area_m2(area_pixels, lat)

\* The ground resolution of a raster: the zoom level or the scale in metres
\* per pixel it was rendered at, and the side in pixels of the raster that
\* covers the ground fetched.
Resolution(kind, level, side) == [kind |-> kind, level |-> level, side |-> side]

\* what a provider delivers (main.py:40-51, earth_engine_utils.py:207-228)
FetchedResolution(provider) ==
    CASE provider = "sentinel2" -> Resolution("scale", Sentinel2Scale, ImageSize)
      [] provider = "landsat8" -> Resolution("scale", Landsat8Scale, ImageSize)
      [] provider = "google" -> Resolution("zoom", GoogleZoom, ImageSize)

\* the raster whose pixels a method counts: TensorFlow resizes it first
AnalysedResolution(provider, method) ==
    IF method = "tensorflow"
    THEN [FetchedResolution(provider) EXCEPT !.side = TfInputSize]
    ELSE FetchedResolution(provider)

\* the resolution the method's conversion stands for: a pixel of a raster
\* fetched at its zoom level
AssumedResolution(method) ==
    CASE method = "opencv" -> Resolution("zoom", OpenCvZoom, ImageSize)
      [] method = "yolo" -> Resolution("zoom", YoloZoom, ImageSize)
      [] method = "tensorflow" -> Resolution("zoom", TfZoom, ImageSize)

-----------------------------------------------------------------------------
(* Imagery (data_processing.py, earth_engine_utils.py).  An attempt is one  *)
(* try of a provider on behalf of a call get_satellite_image(source=...):   *)
(* whether the provider's service was contacted and whether an image was    *)
(* obtained.  The outcome of a call is the value returned, the exception    *)
(* that escaped, the attempts made, and whether output_path was written.    *)

EeReplies == {"ok", "init_failed", "no_image", "download_failed", "raise"}

StaticMapReplies == {"ok", "http_error", "raise"}

Attempt(source, provider, contacted, ok) ==
    [source |-> source, provider |-> provider, contacted |-> contacted, ok |-> ok]

ImageOutcome(value, exception, attempts, written) ==
    [value |-> value, exception |-> exception, attempts |-> attempts, written |-> written]

Truthy(value) == value \in {"True", "bytes"}

\* download_ee_image answers the path, or the bytes when no path is given;
\* get_satellite_image_ee answers whether that is not None
get_satellite_image_ee(satellite, has_output_path, flags, ee) ==
    IF ~flags.EE_AVAILABLE
    THEN ImageOutcome("False", "none", <<Attempt(satellite, satellite, FALSE, FALSE)>>, FALSE)
    ELSE CASE ee = "ok" ->
                  ImageOutcome("True", "none", <<Attempt(satellite, satellite, TRUE, TRUE)>>,
                               has_output_path)
           [] ee = "raise" ->
                  ImageOutcome("None", "Exception",
                               <<Attempt(satellite, satellite, TRUE, FALSE)>>, FALSE)
           [] OTHER ->
                  ImageOutcome("False", "none", <<Attempt(satellite, satellite, TRUE, FALSE)>>,
                               FALSE)

google_static_map(source, has_output_path, flags, google) ==
    IF ~flags.GOOGLE_MAPS_AVAILABLE
    THEN ImageOutcome("None", "none", <<Attempt(source, "google", FALSE, FALSE)>>, FALSE)
    ELSE IF google = "ok"
         THEN ImageOutcome(IF has_output_path THEN "True" ELSE "bytes", "none",
                           <<Attempt(source, "google", TRUE, TRUE)>>, has_output_path)
         ELSE ImageOutcome("None", "none", <<Attempt(source, "google", TRUE, FALSE)>>, FALSE)

get_satellite_image_falling_back(source, has_output_path, flags, ee, google) ==
    LET first == get_satellite_image_ee(source, has_output_path, flags, ee)
        second == google_static_map(source, has_output_path, flags, google)
    IN  IF source \in {"sentinel2", "landsat8"} /\ flags.EE_IMPORTABLE
        THEN IF Truthy(first.value) \/ first.exception # "none" THEN first
             ELSE [second EXCEPT !.attempts = first.attempts \o second.attempts]
        ELSE second

get_satellite_image(source, has_output_path, flags, ee, google) ==
    IF source \in {"sentinel2", "landsat8"} /\ flags.EE_IMPORTABLE
    THEN get_satellite_image_ee(source, has_output_path, flags, ee)
    ELSE IF source \in {"sentinel2", "landsat8", "google"}
         THEN google_static_map(source, has_output_path, flags, google)
         ELSE ImageOutcome("None", "none", <<>>, FALSE)

-----------------------------------------------------------------------------
(* The store (database.py): table land_records as the sequence of its rows *)
(* in id order.  The id column is an INTEGER PRIMARY KEY, so a new row gets *)
(* the largest id in the table plus one.                                    *)

MaxOf(S) == CHOOSE x \in S : \A y \in S : y <= x

NextId(records) == 1 + MaxOf({0} \cup {records[i].id : i \in DOMAIN records})

LandRecord(id, data) ==
    [id |-> id, address |-> data.address, latitude |-> data.latitude,
     longitude |-> data.longitude, registered_area |-> data.registered_area,
     real_area |-> data.real_area, difference |-> data.difference,
     percent_difference |-> data.percent_difference, status |-> data.status]

\* commit is "ok", or "error" when session.commit() raises: then the
\* transaction is rolled back and False is returned
save_terrain_data_overwriting(records, data, commit) ==
    IF commit = "ok"
    THEN [records |-> IF records = <<>> THEN <<LandRecord(1, data)>>
                      ELSE [records EXCEPT ![Len(records)] = LandRecord(records[Len(records)].id, data)],
          value |-> TRUE]
    ELSE [records |-> records, value |-> FALSE]

save_terrain_data_without_rollback(records, data, commit) ==
    [records |-> Append(records, LandRecord(NextId(records), data)), value |-> commit = "ok"]

save_terrain_data(records, data, commit) ==
    IF commit = "ok"
    THEN [records |-> Append(records, LandRecord(NextId(records), data)), value |-> TRUE]
    ELSE [records |-> records, value |-> FALSE]

clear_database(records, commit) ==
    IF commit = "ok" THEN <<>> ELSE records

-----------------------------------------------------------------------------
(* The pipeline (main.py).  analyze_property is given the outcomes of the   *)
(* calls it makes.  Its own outcome is what it returns or the exception     *)
(* that escapes it, the steps it went through, the imagery attempts, the    *)
(* source and method that produced the measurement, the data handed to     *)
(* save_terrain_data, the store afterwards and the verdict it printed.      *)
(* percent_difference is kept in hundredths of a percent.                   *)

Property(address, registered_area) ==
    [columns |-> "full", address |-> address, registered_area |-> registered_area]

\* a CSV row without the address or registered_area column
MalformedProperty == [columns |-> "missing", address |-> 1, registered_area |-> 0]

Properties ==
    {Property(a, r) : a \in PropAddresses, r \in RegAreas} \cup {MalformedProperty}

NoData == [address |-> 0, latitude |-> 0, longitude |-> 0, registered_area |-> 0,
           real_area |-> 0, difference |-> 0, percent_difference |-> 0, status |-> "none"]

NoImage == [success |-> FALSE, exception |-> "none", attempts |-> <<>>, source |-> "none"]

\* lines 38-55: the calls of get_satellite_image, until one answers truthy
download_google_before_landsat(flags, ee1, google1, ee2, google2, google3) ==
    LET first == get_satellite_image("sentinel2", TRUE, flags, ee1, google1)
        second == get_satellite_image("google", TRUE, flags, ee2, google3)
        third == get_satellite_image("landsat8", TRUE, flags, ee2, google2)
    IN  IF first.exception # "none" \/ Truthy(first.value)
        THEN [success |-> Truthy(first.value), exception |-> first.exception,
              attempts |-> first.attempts, source |-> "sentinel2"]
        ELSE IF second.exception # "none" \/ Truthy(second.value)
        THEN [success |-> Truthy(second.value), exception |-> second.exception,
              attempts |-> first.attempts \o second.attempts, source |-> "google"]
        ELSE [success |-> Truthy(third.value), exception |-> third.exception,
              attempts |-> first.attempts \o second.attempts \o third.attempts,
              source |-> "landsat8"]

download_satellite_image(flags, ee1, google1, ee2, google2, google3) ==
    LET first == get_satellite_image("sentinel2", TRUE, flags, ee1, google1)
        second == get_satellite_image("landsat8", TRUE, flags, ee2, google2)
        third == get_satellite_image("google", TRUE, flags, ee2, google3)
    IN  IF first.exception # "none" \/ Truthy(first.value)
        THEN [success |-> Truthy(first.value), exception |-> first.exception,
              attempts |-> first.attempts, source |-> "sentinel2"]
        ELSE IF second.exception # "none" \/ Truthy(second.value)
        THEN [success |-> Truthy(second.value), exception |-> second.exception,
              attempts |-> first.attempts \o second.attempts, source |-> "landsat8"]
        ELSE [success |-> Truthy(third.value), exception |-> third.exception,
              attempts |-> first.attempts \o second.attempts \o third.attempts,
              source |-> "google"]

\* lines 61-75: the dict handed to save_terrain_data
ComparedData(address, lat, lng, registered_area, real_area) ==
    LET difference == Abs(real_area - registered_area)
        percent_difference == IF registered_area # 0
                              THEN Round2(RatTimes(Rat(difference, registered_area), 100))
                              ELSE 0
        status == determine_status(real_area, registered_area, DefaultTolerance)
    IN  [address |-> address, latitude |-> lat, longitude |-> lng,
         registered_area |-> registered_area, real_area |-> real_area,
         difference |-> difference, percent_difference |-> percent_difference,
         status |-> status.result]

\* lines 84-89: the verdict printed
Verdict(status) ==
    IF status = "underdeclared" THEN "potential tax evasion"
    ELSE IF status = "overdeclared" THEN "may be overpaying"
    ELSE "compliant"

ApOutcome(value, exception, steps, image, method, data, records, verdict) ==
    [value |-> value, exception |-> exception, steps |-> steps,
     attempts |-> image.attempts, source |-> image.source, method |-> method,
     data |-> data, records |-> records, verdict |-> verdict]

\* the method whose area process_land_measurement returned
LastMethod(runs) == IF runs = <<>> THEN "none" ELSE runs[Len(runs)].method

NoApOutcome == ApOutcome("none", "none", <<>>, NoImage, "none", NoData, <<>>, "none")

ap_without_image_check(property_data, records, geo_out, image_out, meas_out, commit) ==
    IF property_data.columns # "full"
    THEN ApOutcome("none", "KeyError", <<>>, NoImage, "none", NoData, records, "none")
    ELSE IF IsNone(geo_out.lat) \/ IsNone(geo_out.lng)
    THEN ApOutcome("False", "none", <<"geocode">>, NoImage, "none", NoData, records, "none")
    ELSE IF meas_out.exception # "none"
    THEN ApOutcome("False", "none", <<"geocode", "image", "measure">>, image_out, "none",
                   NoData, records, "none")
    ELSE LET data == ComparedData(property_data.address, geo_out.lat.v, geo_out.lng.v,
                                  property_data.registered_area, meas_out.result.v)
             saved == save_terrain_data(records, data, commit)
         IN  ApOutcome("True", "none", <<"geocode", "image", "measure", "compare", "save">>,
                       image_out, LastMethod(meas_out.runs), data,
                       saved.records, Verdict(data.status))

analyze_property(property_data, records, geo_out, image_out, meas_out, commit) ==
    IF property_data.columns # "full"
    THEN ApOutcome("none", "KeyError", <<>>, NoImage, "none", NoData, records, "none")
    ELSE IF IsNone(geo_out.lat) \/ IsNone(geo_out.lng)
    THEN ApOutcome("False", "none", <<"geocode">>, NoImage, "none", NoData, records, "none")
    ELSE IF image_out.exception # "none" \/ ~image_out.success
    THEN ApOutcome("False", "none", <<"geocode", "image">>, image_out, "none", NoData,
                   records, "none")
    ELSE IF meas_out.exception # "none"
    THEN ApOutcome("False", "none", <<"geocode", "image", "measure">>, image_out, "none",
                   NoData, records, "none")
    ELSE LET data == ComparedData(property_data.address, geo_out.lat.v, geo_out.lng.v,
                                  property_data.registered_area, meas_out.result.v)
             saved == save_terrain_data(records, data, commit)
         IN  ApOutcome("True", "none", <<"geocode", "image", "measure", "compare", "save">>,
                       image_out, LastMethod(meas_out.runs), data,
                       saved.records, Verdict(data.status))

\* the outcomes of the calls analyze_property makes
GeoOutcomes(address, flags) ==
    {get_coordinates(address, FALSE, flags, google, osm) :
         google \in GeoReplies, osm \in GeoReplies}

DownloadOutcomes(flags) ==
    {download_satellite_image(flags, ee1, google1, ee2, google2, google3) :
         ee1 \in EeReplies, google1 \in StaticMapReplies, ee2 \in EeReplies,
         google2 \in StaticMapReplies, google3 \in StaticMapReplies}

MeasOutcomes(flags) ==
    {process_land_measurement("present", "auto", flags, yolo, tf, opencv) :
         yolo \in YoloReplies, tf \in TfReplies, opencv \in OpenCvReplies}

CommitReplies == {"ok", "error"}

\* the same outcomes as analyze_property acts on them: what was returned or
\* raised, without the providers and methods tried on the way
\* Kept as tables of <<arguments, outcomes>>, computed once.
Lookup(table, key) == (CHOOSE entry \in table : entry[1] = key)[2]

GeoReturns ==
    {<<<<address, flags>>,
       {[geo_out EXCEPT !.queries = <<>>] : geo_out \in GeoOutcomes(address, flags)}>> :
         address \in PropAddresses, flags \in Configs}

DownloadReturns ==
    {<<flags, {[image_out EXCEPT !.attempts = <<>>, !.source = "none"] :
                   image_out \in DownloadOutcomes(flags)}>> : flags \in Configs}

MeasReturns ==
    {<<flags, {[meas_out EXCEPT !.runs = <<>>] : meas_out \in MeasOutcomes(flags)}>> :
         flags \in Configs}

-----------------------------------------------------------------------------
(* run_analysis (main.py) *)

\* the rows of one CSV file, or the sample list: all with the same columns
PropertyLists ==
    {properties \in UNION {[1..n -> Properties] : n \in 0..MaxProps} :
         \A i, j \in DOMAIN properties : properties[i].columns = properties[j].columns}

RunIdle == [pc |-> "idle", properties |-> <<>>, i |-> 0, success_count |-> 0]

-----------------------------------------------------------------------------
(* The REST API (api.py).  An endpoint answers with an HTTP status code and *)
(* a body.  Reading the table succeeds; a commit may fail.                  *)

NoStats == [total_properties |-> 0, compliant |-> 0, underdeclared |-> 0,
            overdeclared |-> 0, avg_difference_percent |-> [num |-> 0, den |-> 1],
            total_potential_evasion |-> 0]

NoArg == [id |-> 0, address |-> 0, addresses |-> <<>>, status |-> "none", limit |-> 0,
          offset |-> 0, format |-> "none", clear_db |-> FALSE, properties |-> <<>>]

NoBody == [status |-> "none", rows |-> <<>>, total_records |-> 0, stats |-> NoStats,
           lat |-> PyNone, lng |-> PyNone, results |-> <<>>]

Answer(code, body) == [code |-> code, body |-> body]

Exchange(op, arg, answer) == [op |-> op, arg |-> arg, code |-> answer.code, body |-> answer.body]

NoExchange == Exchange("none", NoArg, Answer(0, NoBody))

Ids(records) == [i \in DOMAIN records |-> records[i].id]

CountStatus(records, status) == Cardinality({i \in DOMAIN records : records[i].status = status})

RECURSIVE SumPercent(_)
SumPercent(records) ==
    IF records = <<>> THEN 0
    ELSE records[1].percent_difference + SumPercent(Tail(records))

\* df.iloc[offset:offset + limit]
Slice(rows, offset, limit) ==
    SubSeq(rows, offset + 1, IF offset + limit < Len(rows) THEN offset + limit ELSE Len(rows))

root == Answer(200, [NoBody EXCEPT !.status = "operational"])

health_check(records) ==
    Answer(200, [NoBody EXCEPT !.status = "healthy", !.total_records = Len(records)])

get_properties(records, status, limit, offset) ==
    IF records = <<>> THEN Answer(200, NoBody)
    ELSE LET df == IF status # "none"
                   THEN SelectSeq(records, LAMBDA r : r.status = status)
                   ELSE records
         IN  Answer(200, [NoBody EXCEPT !.rows = Ids(Slice(df, offset, limit))])

get_property(records, property_id) ==
    IF records = <<>> THEN Answer(404, NoBody)
    ELSE LET property_data == SelectSeq(records, LAMBDA r : r.id = property_id) IN
         IF property_data = <<>> THEN Answer(404, NoBody)
         ELSE Answer(200, [NoBody EXCEPT !.rows = <<property_data[1].id>>])

\* POST /analyze geocodes the address and answers; nothing else is started
api_analyze_property(address, geo_out) ==
    IF IsNone(geo_out.lat) \/ IsNone(geo_out.lng)
    THEN Answer(400, NoBody)
    ELSE Answer(200, [NoBody EXCEPT !.status = "accepted", !.lat = geo_out.lat,
                                    !.lng = geo_out.lng])

\* The table after POST /analyze together with its answer: background_tasks
\* is a parameter the handler never uses and save_terrain_data is imported
\* but never called, so the table is handed back as it was read.
post_analyze_saving(records, address, geo_out) ==
    LET answer == api_analyze_property(address, geo_out) IN
    IF answer.code = 200 /\ Len(records) < MaxRecords
    THEN [records |-> save_terrain_data(records,
                          ComparedData(address, geo_out.lat.v, geo_out.lng.v, 0, 0),
                          "ok").records,
          answer |-> answer]
    ELSE [records |-> records, answer |-> answer]

post_analyze(records, address, geo_out) ==
    [records |-> records, answer |-> api_analyze_property(address, geo_out)]

\* "queued" if lat else "failed": a latitude of 0 is falsy
BatchResult(geo_out) ==
    IF ~IsNone(geo_out.lat) /\ geo_out.lat.v # 0 THEN "queued" ELSE "failed"

batch_analyze(addresses, geo_outs) ==
    IF Len(addresses) > MaxBatch THEN Answer(400, NoBody)
    ELSE Answer(200, [NoBody EXCEPT !.status = "accepted",
                                    !.results = [i \in DOMAIN addresses |->
                                                     BatchResult(geo_outs[i])]])

get_statistics(records) ==
    IF records = <<>> THEN Answer(200, NoBody)
    ELSE Answer(200, [NoBody EXCEPT !.stats =
             [total_properties |-> Len(records),
              compliant |-> CountStatus(records, "compliant"),
              underdeclared |-> CountStatus(records, "underdeclared"),
              overdeclared |-> CountStatus(records, "overdeclared"),
              avg_difference_percent |-> [num |-> SumPercent(records), den |-> Len(records)],
              total_potential_evasion |-> CountStatus(records, "underdeclared")]])

export_data(records, format) ==
    IF records = <<>> THEN Answer(404, NoBody)
    ELSE Answer(200, [NoBody EXCEPT !.rows = Ids(records)])

\* the row is looked up, deleted and the deletion committed
delete_property(records, property_id, commit) ==
    LET record == SelectSeq(records, LAMBDA r : r.id = property_id) IN
    IF record = <<>>
    THEN [records |-> records, answer |-> Answer(404, NoBody)]
    ELSE IF commit = "ok"
         THEN [records |-> SelectSeq(records, LAMBDA r : r.id # property_id),
               answer |-> Answer(200, [NoBody EXCEPT !.status = "deleted"])]
         ELSE [records |-> records, answer |-> Answer(500, NoBody)]

-----------------------------------------------------------------------------
(* The frame of a call under examination: its arguments, whether it has    *)
(* returned, and its outcome.                                               *)

DsIdle == [pc |-> "idle", real_area |-> 0, registered_area |-> 0, tolerance |-> 0,
           out |-> NoOutcome]

DsReady(real_area, registered_area, tolerance) ==
    [pc |-> "ready", real_area |-> real_area, registered_area |-> registered_area,
     tolerance |-> tolerance, out |-> NoOutcome]

GeoIdle == [pc |-> "idle", address |-> 1, use_osm |-> FALSE, out |-> NoGeoOutcome]

GeoReady(address, use_osm) ==
    [pc |-> "ready", address |-> address, use_osm |-> use_osm, out |-> NoGeoOutcome]

MeasIdle == [pc |-> "idle", image |-> "missing", method |-> "auto", out |-> NoMeasOutcome]

MeasReady(image, method) ==
    [pc |-> "ready", image |-> image, method |-> method, out |-> NoMeasOutcome]

SvIdle == [pc |-> "idle", data |-> NoData, commit |-> "none", value |-> FALSE,
           before |-> <<>>]

\* before: the rows of the table when the call was made
SvCalled(data, commit, value, before) ==
    [pc |-> "returned", data |-> data, commit |-> commit, value |-> value, before |-> before]

NoImageOutcome == ImageOutcome("None", "none", <<>>, FALSE)

Sources == {"sentinel2", "landsat8", "google", "other"}

ImgIdle == [pc |-> "idle", source |-> "google", has_output_path |-> FALSE,
            out |-> NoImageOutcome]

ImgReady(source, has_output_path) ==
    [pc |-> "ready", source |-> source, has_output_path |-> has_output_path,
     out |-> NoImageOutcome]

ConvIdle == [pc |-> "idle", method |-> "opencv", area_pixels |-> 0, lat |-> 0,
             out |-> NoConverted]

ConvReady(method, area_pixels, lat) ==
    [pc |-> "ready", method |-> method, area_pixels |-> area_pixels, lat |-> lat,
     out |-> NoConverted]

\* heard: what the calls analyze_property makes came to
NoHeard == [geo_out |-> NoGeoOutcome, image_out |-> NoImage, meas_out |-> NoMeasOutcome,
            commit |-> "none"]

ApIdle == [pc |-> "idle", property_data |-> MalformedProperty, out |-> NoApOutcome,
           heard |-> NoHeard]

ApReady(property_data) ==
    [pc |-> "ready", property_data |-> property_data, out |-> NoApOutcome, heard |-> NoHeard]

-----------------------------------------------------------------------------
(* SpecStatus: determine_status applied to every input of a bounded set *)

InitStatus ==
    /\ config = DefaultConfig
    /\ geo = GeoIdle
    /\ meas = MeasIdle
    /\ ap = ApIdle
    /\ store = <<>>
    /\ run = RunIdle
    /\ conv = ConvIdle
    /\ img = ImgIdle
    /\ sv = SvIdle
    /\ last = NoExchange
    /\ \E real_area \in Areas, registered_area \in Areas, tolerance \in Tolerances :
           ds = DsReady(real_area, registered_area, tolerance)

DS_Call ==
    /\ ds.pc = "ready"
    /\ ds' = [ds EXCEPT !.pc = "returned",
                        !.out = determine_status(ds.real_area, ds.registered_area, ds.tolerance)]
    /\ UNCHANGED <<config, geo, meas, ap, store, run, conv, img, sv, last>>

NextStatus == DS_Call

SpecStatus == InitStatus /\ [][NextStatus]_vars

-----------------------------------------------------------------------------
(* SpecGeo: get_coordinates called with every argument, flag and reply *)

InitGeo ==
    /\ config \in ConfigsVarying({"GOOGLE_MAPS_AVAILABLE"})
    /\ ds = DsIdle
    /\ meas = MeasIdle
    /\ ap = ApIdle
    /\ store = <<>>
    /\ run = RunIdle
    /\ conv = ConvIdle
    /\ img = ImgIdle
    /\ sv = SvIdle
    /\ last = NoExchange
    /\ \E address \in Addresses, use_osm \in BOOLEAN :
           geo = [pc |-> "ready", address |-> address, use_osm |-> use_osm,
                  out |-> NoGeoOutcome]

GC_Call ==
    /\ geo.pc = "ready"
    /\ \E google \in GeoReplies, osm \in GeoReplies :
           geo' = [geo EXCEPT !.pc = "returned",
                              !.out = get_coordinates(geo.address, geo.use_osm, config,
                                                      google, osm)]
    /\ UNCHANGED <<config, ds, meas, ap, store, run, conv, img, sv, last>>

NextGeo == GC_Call

SpecGeo == InitGeo /\ [][NextGeo]_vars

-----------------------------------------------------------------------------
(* SpecMeasure: process_land_measurement called with every method, flag and *)
(* answer of the methods                                                    *)

InitMeasure ==
    /\ config \in ConfigsVarying({"YOLO_AVAILABLE", "TF_AVAILABLE", "TF_INSTALLED"})
    /\ ds = DsIdle
    /\ geo = GeoIdle
    /\ ap = ApIdle
    /\ store = <<>>
    /\ run = RunIdle
    /\ conv = ConvIdle
    /\ img = ImgIdle
    /\ sv = SvIdle
    /\ last = NoExchange
    /\ \E image \in {"missing", "present"}, method \in Methods :
           meas = MeasReady(image, method)

PLM_Call ==
    /\ meas.pc = "ready"
    /\ \E yolo \in YoloReplies, tf \in TfReplies, opencv \in OpenCvReplies :
           meas' = [meas EXCEPT !.pc = "returned",
                                !.out = process_land_measurement(meas.image, meas.method,
                                                                 config, yolo, tf, opencv)]
    /\ UNCHANGED <<config, ds, geo, ap, store, run, conv, img, sv, last>>

NextMeasure == PLM_Call

SpecMeasure == InitMeasure /\ [][NextMeasure]_vars

-----------------------------------------------------------------------------
(* SpecAnalyze: analyze_property called once on an empty store, with every  *)
(* property, flag and outcome of the calls it makes                         *)

InitAnalyze ==
    /\ config \in Configs
    /\ ds = DsIdle
    /\ geo = GeoIdle
    /\ meas = MeasIdle
    /\ store = <<>>
    /\ run = RunIdle
    /\ conv = ConvIdle
    /\ img = ImgIdle
    /\ sv = SvIdle
    /\ last = NoExchange
    /\ \E property_data \in Properties : ap = ApReady(property_data)

AP_Call ==
    /\ ap.pc = "ready"
    /\ \E geo_out \in GeoOutcomes(ap.property_data.address, config),
          image_out \in DownloadOutcomes(config),
          meas_out \in MeasOutcomes(config),
          commit \in CommitReplies :
           LET out == analyze_property(ap.property_data, store, geo_out, image_out,
                                       meas_out, commit)
           IN  /\ ap' = [ap EXCEPT !.pc = "returned", !.out = out,
                                    !.heard = [geo_out |-> geo_out, image_out |-> image_out,
                                               meas_out |-> meas_out, commit |-> commit]]
               /\ store' = out.records
    /\ UNCHANGED <<config, ds, geo, meas, run, conv, img, sv, last>>

NextAnalyze == AP_Call

SpecAnalyze == InitAnalyze /\ [][NextAnalyze]_vars

-----------------------------------------------------------------------------
(* SpecConvert: the conversion of each method applied to every pixel area   *)
(* and latitude of a bounded set                                            *)

InitConvert ==
    /\ config = DefaultConfig
    /\ ds = DsIdle
    /\ geo = GeoIdle
    /\ meas = MeasIdle
    /\ ap = ApIdle
    /\ store = <<>>
    /\ run = RunIdle
    /\ img = ImgIdle
    /\ sv = SvIdle
    /\ last = NoExchange
    /\ \E method \in ConvMethods, area_pixels \in PixelAreas, lat \in Latitudes :
           conv = ConvReady(method, area_pixels, lat)

CV_Call ==
    /\ conv.pc = "ready"
    /\ conv' = [conv EXCEPT !.pc = "returned",
                            !.out = ConvertWith(conv.method, conv.area_pixels, conv.lat)]
    /\ UNCHANGED <<config, ds, geo, meas, ap, store, run, img, sv, last>>

NextConvert == CV_Call

SpecConvert == InitConvert /\ [][NextConvert]_vars

-----------------------------------------------------------------------------
(* SpecImage: get_satellite_image called with every source, with and        *)
(* without output_path, under every flag and reply of the providers         *)

InitImage ==
    /\ config \in ConfigsVarying({"GOOGLE_MAPS_AVAILABLE", "EE_IMPORTABLE", "EE_AVAILABLE"})
    /\ ds = DsIdle
    /\ geo = GeoIdle
    /\ meas = MeasIdle
    /\ ap = ApIdle
    /\ store = <<>>
    /\ run = RunIdle
    /\ conv = ConvIdle
    /\ sv = SvIdle
    /\ last = NoExchange
    /\ \E source \in Sources, has_output_path \in BOOLEAN :
           img = ImgReady(source, has_output_path)

GSI_Call ==
    /\ img.pc = "ready"
    /\ \E ee \in EeReplies, google \in StaticMapReplies :
           img' = [img EXCEPT !.pc = "returned",
                              !.out = get_satellite_image(img.source, img.has_output_path,
                                                          config, ee, google)]
    /\ UNCHANGED <<config, ds, geo, meas, ap, store, run, conv, sv, last>>

NextImage == GSI_Call

SpecImage == InitImage /\ [][NextImage]_vars

-----------------------------------------------------------------------------
(* SpecSave: save_terrain_data called again and again, on the table the     *)
(* earlier calls left, with every dict analyze_property can hand it         *)

Datas ==
    {ComparedData(address, lat, lng, registered_area, real_area) :
         address \in PropAddresses, lat \in Lats, lng \in Lngs,
         registered_area \in RegAreas, real_area \in RealAreas}

InitSave ==
    /\ config = DefaultConfig
    /\ ds = DsIdle
    /\ geo = GeoIdle
    /\ meas = MeasIdle
    /\ ap = ApIdle
    /\ store = <<>>
    /\ run = RunIdle
    /\ conv = ConvIdle
    /\ img = ImgIdle
    /\ sv = SvIdle
    /\ last = NoExchange

SV_Call ==
    /\ Len(store) < MaxRecords
    /\ \E data \in Datas, commit \in CommitReplies :
           LET saved == save_terrain_data(store, data, commit) IN
           /\ store' = saved.records
           /\ sv' = SvCalled(data, commit, saved.value, store)
    /\ UNCHANGED <<config, ds, geo, meas, ap, run, conv, img, last>>

NextSave == SV_Call

SpecSave == InitSave /\ [][NextSave]_vars

-----------------------------------------------------------------------------
(* Spec: the system.  The command line runs run_analysis, one run at a time; *)
(* the API server answers requests in between its steps.                    *)

Init ==
    /\ config = DefaultConfig
    /\ ds = DsIdle
    /\ geo = GeoIdle
    /\ meas = MeasIdle
    /\ ap = ApIdle
    /\ store = <<>>
    /\ run = RunIdle
    /\ conv = ConvIdle
    /\ img = ImgIdle
    /\ sv = SvIdle
    /\ last = NoExchange

Frames == <<config, ds, geo, meas, ap, conv, img, sv>>

\* run_analysis up to the loop: init_database, clear_database if asked,
\* the properties loaded; it returns at once when there are none
RA_Start ==
    /\ run.pc = "idle"
    /\ \E clear_db \in BOOLEAN, properties \in PropertyLists, commit \in CommitReplies :
           LET records == IF clear_db THEN clear_database(store, commit) ELSE store IN
           /\ Len(records) + Len(properties) <= MaxRecords
           /\ store' = records
           /\ run' = IF properties = <<>> THEN RunIdle
                     ELSE [pc |-> "loop", properties |-> properties, i |-> 1,
                           success_count |-> 0]
           /\ last' = Exchange("run_analysis",
                               [NoArg EXCEPT !.clear_db = clear_db, !.properties = properties],
                               Answer(0, NoBody))
    /\ UNCHANGED Frames

\* one turn of the loop: analyze_property on the next property; a KeyError
\* escapes analyze_property and ends the run
RA_Analyze ==
    /\ run.pc = "loop"
    /\ run.i <= Len(run.properties)
    /\ \E geo_out \in Lookup(GeoReturns, <<run.properties[run.i].address, config>>),
          image_out \in Lookup(DownloadReturns, config),
          meas_out \in Lookup(MeasReturns, config),
          commit \in CommitReplies :
           LET out == analyze_property(run.properties[run.i], store, geo_out, image_out,
                                       meas_out, commit)
           IN  /\ store' = out.records
               /\ run' = IF out.exception # "none" THEN RunIdle
                         ELSE [run EXCEPT !.i = run.i + 1,
                                          !.success_count =
                                              IF out.value = "True"
                                              THEN run.success_count + 1
                                              ELSE run.success_count]
               /\ last' = Exchange("analyze_property", [NoArg EXCEPT !.id = run.i],
                                   Answer(0, [NoBody EXCEPT !.status =
                                       IF out.exception # "none" THEN out.exception
                                       ELSE out.value]))
    /\ UNCHANGED Frames

\* after the loop: the summary is printed from the store
RA_Finish ==
    /\ run.pc = "loop"
    /\ run.i > Len(run.properties)
    /\ run' = RunIdle
    /\ last' = Exchange("run_analysis summary", NoArg,
                        Answer(0, [NoBody EXCEPT !.total_records = run.success_count,
                                                 !.stats = get_statistics(store).body.stats]))
    /\ UNCHANGED <<store, Frames>>

API_Root ==
    /\ last' = Exchange("GET /", NoArg, root)
    /\ UNCHANGED <<store, run, Frames>>

API_Health ==
    /\ last' = Exchange("GET /health", NoArg, health_check(store))
    /\ UNCHANGED <<store, run, Frames>>

API_GetProperties ==
    /\ \E status \in {"none", "underdeclared"},
          limit \in {1, DefaultLimit}, offset \in {0, 1} :
           last' = Exchange("GET /properties",
                            [NoArg EXCEPT !.status = status, !.limit = limit,
                                          !.offset = offset],
                            get_properties(store, status, limit, offset))
    /\ UNCHANGED <<store, run, Frames>>

API_GetProperty ==
    /\ \E property_id \in 1..MaxRecords :
           last' = Exchange("GET /properties/{id}", [NoArg EXCEPT !.id = property_id],
                            get_property(store, property_id))
    /\ UNCHANGED <<store, run, Frames>>

API_Analyze ==
    /\ \E address \in PropAddresses :
           \E geo_out \in Lookup(GeoReturns, <<address, config>>) :
               LET done == post_analyze(store, address, geo_out) IN
               /\ store' = done.records
               /\ last' = Exchange("POST /analyze", [NoArg EXCEPT !.address = address],
                                   done.answer)
    /\ UNCHANGED <<run, Frames>>

API_Batch ==
    /\ \E n \in 0..MaxProps :
           \E addresses \in [1..n -> PropAddresses] :
               \E geo_outs \in [1..n -> UNION {Lookup(GeoReturns, <<a, config>>) : a \in PropAddresses}] :
                   /\ \A i \in 1..n : geo_outs[i] \in Lookup(GeoReturns, <<addresses[i], config>>)
                   /\ last' = Exchange("POST /batch", [NoArg EXCEPT !.addresses = addresses],
                                       batch_analyze(addresses, geo_outs))
    /\ UNCHANGED <<store, run, Frames>>

API_Stats ==
    /\ last' = Exchange("GET /stats", NoArg, get_statistics(store))
    /\ UNCHANGED <<store, run, Frames>>

API_Export ==
    /\ \E format \in {"json", "csv"} :
           last' = Exchange("GET /export", [NoArg EXCEPT !.format = format],
                            export_data(store, format))
    /\ UNCHANGED <<store, run, Frames>>

API_Delete ==
    /\ \E property_id \in 1..MaxRecords, commit \in CommitReplies :
           LET done == delete_property(store, property_id, commit) IN
           /\ store' = done.records
           /\ last' = Exchange("DELETE /properties/{id}", [NoArg EXCEPT !.id = property_id],
                               done.answer)
    /\ UNCHANGED <<run, Frames>>

Next ==
    \/ RA_Start
    \/ RA_Analyze
    \/ RA_Finish
    \/ API_Root
    \/ API_Health
    \/ API_GetProperties
    \/ API_GetProperty
    \/ API_Analyze
    \/ API_Batch
    \/ API_Stats
    \/ API_Export
    \/ API_Delete

Spec == Init /\ [][Next]_vars

\* a run_analysis that has started goes on to its end; requests to the API
\* and new runs come when their callers please
RunProgress == WF_vars(RA_Analyze) /\ WF_vars(RA_Finish)

FairSpec == Spec /\ RunProgress

-----------------------------------------------------------------------------
(* Claims about determine_status, checked under SpecStatus *)

DsReturned == ds.pc = "returned"

\* C1: determine_status returns "error" whenever registered_area = 0, for
\* every real_area and tolerance, and no call divides by zero: a zero
\* registered_area is answered before any division is performed.
C1_ZeroAreaIsErrorWithoutDivision ==
    DsReturned =>
        /\ ds.out.exception = "none"
        /\ \A i \in DOMAIN ds.out.divisors : ds.out.divisors[i] # 0
        /\ ds.registered_area = 0 => (ds.out.result = "error" /\ ds.out.divisors = <<>>)

C1_Witness ==
    DsReturned /\ ds.registered_area = 0 /\ ds.real_area # 0 /\ ds.out.result = "error"

PercentAbove(real_area, registered_area, bound) ==
    100 * (real_area - registered_area) * Sgn(registered_area) > bound * Abs(registered_area)

PercentBelow(real_area, registered_area, bound) ==
    100 * (real_area - registered_area) * Sgn(registered_area) < bound * Abs(registered_area)

ThreeWayPolicy ==
    /\ ds.out.exception = "none"
    /\ ds.out.result \in {"compliant", "underdeclared", "overdeclared"}
    /\ ds.out.result = "underdeclared"
           <=> PercentAbove(ds.real_area, ds.registered_area, ds.tolerance)
    /\ ds.out.result = "overdeclared"
           <=> PercentBelow(ds.real_area, ds.registered_area, 0 - ds.tolerance)

\* C3 (as stated): for every registered_area # 0, and every tolerance, the
\* result is one of "compliant", "underdeclared", "overdeclared", it is
\* "underdeclared" exactly when percent_difference > tolerance and
\* "overdeclared" exactly when percent_difference < -tolerance.
C3_Original_ThreeWayForEveryTolerance ==
    (DsReturned /\ ds.registered_area # 0) => ThreeWayPolicy

\* C3 (amended): the same, for every registered_area # 0 and every
\* tolerance >= 0.
C3_ThreeWayForNonNegativeTolerance ==
    (DsReturned /\ ds.registered_area # 0 /\ ds.tolerance >= 0) => ThreeWayPolicy

C3_Witness ==
    /\ DsReturned
    /\ ds.registered_area > 0
    /\ ds.tolerance = DefaultTolerance
    /\ ds.out.result = "overdeclared"
    /\ ds.real_area < ds.registered_area

\* C4: for every registered_area # 0, negative values included, and every
\* tolerance >= 0, "underdeclared" implies real_area > registered_area and
\* "overdeclared" implies real_area < registered_area.
C4_LabelAgreesWithAreaOrder ==
    (DsReturned /\ ds.registered_area # 0 /\ ds.tolerance >= 0) =>
        /\ ds.out.result = "underdeclared" => ds.real_area > ds.registered_area
        /\ ds.out.result = "overdeclared" => ds.real_area < ds.registered_area

-----------------------------------------------------------------------------
(* Claims about get_coordinates, checked under SpecGeo *)

GeoReturned == geo.pc = "returned"

GoogleIsTried == config.GOOGLE_MAPS_AVAILABLE /\ ~geo.use_osm

NoAnswer == {"empty", "raise"}

\* C8: get_coordinates queries Google Maps first whenever it is configured
\* and use_osm is false; OpenStreetMap is queried only when Google Maps is
\* unconfigured, use_osm is set, or the Google Maps query found nothing or
\* raised; after a Google Maps result OpenStreetMap is not queried; (None,
\* None) is returned only after an OpenStreetMap query that found nothing
\* or raised; no exception escapes.
C8_GeocoderFallbackOrder ==
    GeoReturned =>
        LET q == geo.out.queries IN
        /\ geo.out.exception = "none"
        /\ Len(q) \in 1..2
        /\ \A i \in DOMAIN q : q[i].address = geo.address
        /\ GoogleIsTried => q[1].provider = "google"
        /\ ~GoogleIsTried => \A i \in DOMAIN q : q[i].provider = "osm"
        /\ \A i \in DOMAIN q :
               q[i].provider = "osm" =>
                   \/ ~GoogleIsTried
                   \/ i = 2 /\ q[1].provider = "google" /\ q[1].reply \in NoAnswer
        /\ \A i \in DOMAIN q :
               (q[i].provider = "google" /\ q[i].reply = "found") =>
                   /\ \A j \in DOMAIN q : q[j].provider # "osm"
                   /\ ~IsNone(geo.out.lat) /\ ~IsNone(geo.out.lng)
        /\ (IsNone(geo.out.lat) \/ IsNone(geo.out.lng)) =>
               (q[Len(q)].provider = "osm" /\ q[Len(q)].reply \in NoAnswer)

\* Google Maps raised, OpenStreetMap was asked next and found the address
C8_Witness ==
    /\ GeoReturned
    /\ Len(geo.out.queries) = 2
    /\ geo.out.queries[1].provider = "google" /\ geo.out.queries[1].reply = "raise"
    /\ geo.out.queries[2].provider = "osm" /\ geo.out.queries[2].reply = "found"
    /\ ~IsNone(geo.out.lat)

-----------------------------------------------------------------------------
(* Claims about process_land_measurement, checked under SpecMeasure *)

MeasReturned == meas.pc = "returned"

Rank(method) == CASE method = "yolo" -> 1 [] method = "tensorflow" -> 2 [] method = "opencv" -> 3

\* the module flag that makes method 'auto' skip a method
Skipped(method) ==
    CASE method = "yolo" -> ~config.YOLO_AVAILABLE
      [] method = "tensorflow" -> ~config.TF_AVAILABLE
      [] method = "opencv" -> FALSE

\* C9: with method='auto' the methods are run in the order YOLO, TensorFlow,
\* OpenCV; a method is run only when each earlier method was unavailable,
\* raised or returned None; the value returned is the area of the first
\* method, in that order, that produced one.
C9_AutoMethodOrder ==
    (MeasReturned /\ meas.method = "auto" /\ meas.image = "present") =>
        LET r == meas.out.runs IN
        /\ \A i, j \in DOMAIN r : i < j => Rank(r[i].method) < Rank(r[j].method)
        /\ \A j \in DOMAIN r : \A m \in {"yolo", "tensorflow", "opencv"} :
               Rank(m) < Rank(r[j].method) =>
                   \/ Skipped(m)
                   \/ \E i \in 1..(j - 1) :
                          r[i].method = m /\ r[i].answer.kind \in {"none", "raise"}
        /\ \A i \in DOMAIN r :
               r[i].answer.kind = "area" =>
                   /\ meas.out.exception = "none"
                   /\ meas.out.result = Num(r[i].answer.v)
        /\ meas.out.exception = "none" =>
               \E i \in DOMAIN r : r[i].answer.kind = "area" /\ meas.out.result = Num(r[i].answer.v)

\* YOLO raised, TensorFlow returned None, OpenCV measured the area returned
C9_Witness ==
    /\ MeasReturned /\ meas.method = "auto"
    /\ Len(meas.out.runs) = 3
    /\ meas.out.runs[1].answer.kind = "raise"
    /\ meas.out.runs[2].answer.kind = "none"
    /\ meas.out.runs[3].answer.kind = "area"
    /\ meas.out.result = Num(meas.out.runs[3].answer.v)
    /\ meas.out.result.v > 0

-----------------------------------------------------------------------------
(* Claims about analyze_property, checked under SpecAnalyze *)

ApReturned == ap.pc = "returned"

\* the percent difference determine_status compares with the tolerance,
\* rounded as the record's is: (real - registered) / registered * 100
SignedPercent(real_area, registered_area) ==
    Round2(RatTimes(Rat(real_area - registered_area, registered_area), 100))

\* C5: for a registered area # 0 the percent_difference stored in the record
\* is the signed (measured - declared) / declared * 100, negative when the
\* measured area is the smaller, the quantity determine_status compares.
C5_StoredPercentIsSigned ==
    \A i \in DOMAIN store :
        store[i].registered_area # 0 =>
            store[i].percent_difference
                = SignedPercent(store[i].real_area, store[i].registered_area)

\* C6: every record analyze_property persists has a status among
\* "compliant", "underdeclared", "overdeclared".
C6_StoredStatusIsOneOfThree ==
    \A i \in DOMAIN store : store[i].status \in {"compliant", "underdeclared", "overdeclared"}

ProviderRank(provider) ==
    CASE provider = "sentinel2" -> 1 [] provider = "landsat8" -> 2 [] provider = "google" -> 3

ProviderOrder == <<"sentinel2", "landsat8", "google">>

\* a provider is contacted only after each earlier one was attempted and
\* failed, and no attempt follows a success
ProvidersInOrder(attempts) ==
    /\ \A j \in DOMAIN attempts :
           attempts[j].contacted =>
               \A p \in {"sentinel2", "landsat8", "google"} :
                   ProviderRank(p) < ProviderRank(attempts[j].provider) =>
                       \E i \in 1..(j - 1) : attempts[i].provider = p /\ ~attempts[i].ok
    /\ \A i, j \in DOMAIN attempts : i < j => ~attempts[i].ok

-----------------------------------------------------------------------------
(* Claims about the store, checked under Spec *)

Kept(record) == \E j \in DOMAIN store' : store'[j] = record

\* the step is the start of a run_analysis(clear_db=True)
Clears == last'.op = "run_analysis" /\ last'.arg.clear_db

\* the step is a DELETE /properties/{id} of that record
Deletes(record) == last'.op = "DELETE /properties/{id}" /\ last'.arg.id = record.id

\* C10 as stated: the store is append-only: whatever operation of the
\* program is performed, every record that was once saved is still present
\* and unmodified.
C10_Original_StoreIsAppendOnly ==
    [][\A i \in DOMAIN store : Kept(store[i])]_vars

\* C10, amended: a record once saved stays present and unmodified until
\* clear_database (run_analysis with clear_db=True) removes all records or
\* DELETE /properties/{id} removes that record; every other operation leaves
\* the saved records as they are, a save adding its record after them.
C10_RecordsKeptUntilClearedOrDeleted ==
    [][/\ \A i \in DOMAIN store : Kept(store[i]) \/ Clears \/ Deletes(store[i])
       /\ \/ Clears
          \/ last'.op = "DELETE /properties/{id}"
          \/ /\ Len(store') >= Len(store)
             /\ SubSeq(store', 1, Len(store)) = store]_vars

\* a second record has been saved after a first one, which is still there
C10_Witness ==
    /\ last.op = "analyze_property"
    /\ last.body.status = "True"
    /\ Len(store) = 2
    /\ store[1].id = 1
    /\ store[2].id = 2

-----------------------------------------------------------------------------
(* Claims about the pipeline of analyze_property, checked under SpecAnalyze *)

PipelineOrder == <<"geocode", "image", "measure", "compare", "save">>

IsPrefix(s, t) == Len(s) <= Len(t) /\ SubSeq(t, 1, Len(s)) = s

\* what the calls came to, for a property that has both columns
Geocoded == ~IsNone(ap.heard.geo_out.lat) /\ ~IsNone(ap.heard.geo_out.lng)

ImageFetched == ap.heard.image_out.exception = "none" /\ ap.heard.image_out.success

Measured == ap.heard.meas_out.exception = "none" /\ ~IsNone(ap.heard.meas_out.result)

SaveCalled == \E i \in DOMAIN ap.out.steps : ap.out.steps[i] = "save"

\* C11: analyze_property performs its steps in the order geocode, fetch
\* image, measure, compare, store; save_terrain_data is called only after
\* geocoding returned coordinates, an image download succeeded and the
\* measurement produced an area; when geocoding fails, all image sources fail
\* or measurement raises, no record is saved and False is returned.
C11_StepsInOrderAndSaveLast ==
    (ApReturned /\ ap.property_data.columns = "full") =>
        /\ IsPrefix(ap.out.steps, PipelineOrder)
        /\ SaveCalled => (Geocoded /\ ImageFetched /\ Measured)
        /\ store # <<>> => SaveCalled
        /\ ~(Geocoded /\ ImageFetched /\ Measured) =>
               (store = <<>> /\ ~SaveCalled /\ ap.out.value = "False")

\* every source of imagery failed after a successful geocoding, and nothing was saved
C11_Witness ==
    /\ ApReturned
    /\ ap.property_data.columns = "full"
    /\ Geocoded
    /\ ~ap.heard.image_out.success
    /\ Len(ap.heard.image_out.attempts) = 3
    /\ Measured
    /\ ap.out.steps = <<"geocode", "image">>
    /\ store = <<>>

-----------------------------------------------------------------------------
(* Claims about the conversion to square metres, checked under SpecConvert *)

ConvReturned == conv.pc = "returned"

\* C12: each method converts a pixel area as area_m2 = area_pixels *
\* meters_per_pixel^2 with meters_per_pixel = 156543.03392 * cos(latitude) /
\* 2^zoom, and the three methods use the same meters_per_pixel for the same
\* latitude.
C12_SameMetersPerPixelFormula ==
    ConvReturned =>
        /\ \E zoom \in 0..20 :
               SameQuantity(conv.out.base_meters_per_pixel, MetersPerPixel(conv.lat, zoom))
        /\ SameQuantity(conv.out.area_m2,
                        Scaled(conv.area_pixels, Squared(conv.out.base_meters_per_pixel)))
        /\ \A method \in ConvMethods :
               SameQuantity(ConvertWith(method, conv.area_pixels, conv.lat).base_meters_per_pixel,
                            conv.out.base_meters_per_pixel)

\* TensorFlow converted a positive pixel area away from the equator
C12_Witness ==
    /\ ConvReturned
    /\ conv.method = "tensorflow"
    /\ conv.lat = 60
    /\ conv.area_pixels = 3
    /\ conv.out.area_m2.num = 3
    /\ conv.out.area_m2.den = 4

-----------------------------------------------------------------------------
(* Further claims about process_land_measurement, checked under SpecMeasure *)

LastRun == meas.out.runs[Len(meas.out.runs)]

\* C13: process_land_measurement either returns a numeric area or raises,
\* never None; it raises ValueError before running any method when
\* image_path is empty or names no file, and raises ValueError when the
\* method or methods selected produced no area.
C13_AreaOrRaise ==
    MeasReturned =>
        /\ (meas.out.exception = "none") # IsNone(meas.out.result)
        /\ meas.image # "present" =>
               (meas.out.exception = "ValueError" /\ meas.out.runs = <<>>)
        /\ meas.image = "present" =>
               /\ meas.out.runs # <<>>
               /\ LastRun.answer.kind = "none" => meas.out.exception = "ValueError"
               /\ (\A i \in DOMAIN meas.out.runs : meas.out.runs[i].answer.kind # "area")
                      => meas.out.exception # "none"

\* TensorFlow, asked for by name, returned None: ValueError after one run
C13_Witness ==
    /\ MeasReturned
    /\ meas.image = "present"
    /\ meas.method = "tensorflow"
    /\ config.TF_INSTALLED
    /\ meas.out.runs = <<Ran("tensorflow", NoArea)>>
    /\ meas.out.exception = "ValueError"
    /\ IsNone(meas.out.result)

\* the backend of the method asked for by name is missing, or the name is unknown
BackendMissing ==
    \/ meas.method = "yolo" /\ ~config.YOLO_AVAILABLE
    \/ meas.method = "tensorflow" /\ ~config.TF_INSTALLED
    \/ meas.method \notin {"auto", "opencv", "yolo", "tensorflow"}

\* C15: when process_land_measurement is called with an explicit method whose
\* backend is not available (yolo without ultralytics, tensorflow without
\* TensorFlow) or with an unknown method name, the area is measured with the
\* OpenCV method instead of failing.
C15_MissingBackendFallsBackToOpenCv ==
    (MeasReturned /\ meas.image = "present" /\ BackendMissing) =>
        /\ Len(meas.out.runs) = 1
        /\ LastRun.method = "opencv"
        /\ LastRun.answer.kind = "area" =>
               (meas.out.exception = "none" /\ meas.out.result = Num(LastRun.answer.v))

-----------------------------------------------------------------------------
(* Claims about the API, checked under FairSpec *)

Accepted(address) ==
    /\ last.op = "POST /analyze"
    /\ last.body.status = "accepted"
    /\ last.arg.address = address

Recorded(address) == \E i \in DOMAIN store : store[i].address = address

\* C14: after POST /analyze answers "accepted" for an address, the analysis
\* of that address runs in the background and a record for that address
\* eventually appears in the store GET /properties returns.
C14_AcceptedLeadsToRecord ==
    \A address \in PropAddresses : Accepted(address) ~> Recorded(address)

-----------------------------------------------------------------------------
(* Claims about get_satellite_image, checked under SpecImage *)

ImgReturned == img.pc = "returned"

GoogleContacted ==
    \E i \in DOMAIN img.out.attempts :
        img.out.attempts[i].provider = "google" /\ img.out.attempts[i].contacted

\* C16: a call get_satellite_image(source='sentinel2' or 'landsat8')
\* contacts Google Static Maps only if earth_engine_utils cannot be
\* imported; when the Earth Engine path runs and fails, the call returns a
\* falsy value without contacting Google.  With output_path given, the call
\* returns a truthy value only if the image bytes were written to it.
C16_GoogleOnlyWithoutEarthEngineModule ==
    ImgReturned =>
        /\ img.source \in {"sentinel2", "landsat8"} =>
               /\ GoogleContacted => ~config.EE_IMPORTABLE
               /\ config.EE_IMPORTABLE =>
                      /\ Len(img.out.attempts) = 1
                      /\ img.out.attempts[1].provider = img.source
                      /\ (img.out.exception = "none" /\ ~img.out.attempts[1].ok)
                             => ~Truthy(img.out.value)
        /\ (img.has_output_path /\ Truthy(img.out.value)) => img.out.written

\* Earth Engine was contacted for Sentinel-2 and had no image: falsy, Google
\* Maps, though configured, was not asked
C16_Witness ==
    /\ ImgReturned
    /\ img.source = "sentinel2"
    /\ img.has_output_path
    /\ config.EE_IMPORTABLE /\ config.EE_AVAILABLE /\ config.GOOGLE_MAPS_AVAILABLE
    /\ img.out.attempts = <<Attempt("sentinel2", "sentinel2", TRUE, FALSE)>>
    /\ img.out.value = "False"
    /\ img.out.exception = "none"

-----------------------------------------------------------------------------
(* Claims about the scale of the measurement, checked under SpecAnalyze *)

\* the provider whose image was analysed
ImageProvider == ap.out.attempts[Len(ap.out.attempts)].provider

\* C17: the meters-per-pixel factor used to convert the measured pixel area
\* corresponds to the ground resolution of the image actually analysed: for
\* every imagery source analyze_property can end up using and every
\* measurement method, the zoom or scale assumed by the conversion equals the
\* one at which the image was fetched.
C17_AssumedScaleIsFetchedScale ==
    (ApReturned /\ ap.out.value = "True") =>
        AssumedResolution(ap.out.method) = AnalysedResolution(ImageProvider, ap.out.method)

-----------------------------------------------------------------------------
(* Claims about run_analysis, checked under Spec *)

RunEnds == run.pc = "loop" /\ run'.pc = "idle"

Analysed == last'.op = "analyze_property"

\* C18: run_analysis calls analyze_property once for each property, in list
\* order; a failure while analysing one property, a malformed property
\* included, never prevents the remaining ones from being analysed, because
\* analyze_property never raises and reports every failure as False; the
\* run ends with success_count the number of True results, between 0 and
\* the number of properties.
C18_EveryPropertyAnalysed ==
    [][/\ Analysed =>
              /\ last'.arg.id = run.i
              /\ last'.body.status \in {"True", "False"}
              /\ run'.pc = "loop" /\ run'.i = run.i + 1
              /\ run'.success_count
                     = run.success_count + (IF last'.body.status = "True" THEN 1 ELSE 0)
       /\ RunEnds =>
              /\ run.i = Len(run.properties) + 1
              /\ run.success_count \in 0..Len(run.properties)]_vars

-----------------------------------------------------------------------------
(* Claims about the value analyze_property returns, checked under SpecAnalyze *)

\* C19: analyze_property returns True only if a record for the property was
\* committed to the store; whenever save_terrain_data fails (rolls back and
\* returns False), analyze_property returns False.
C19_TrueOnlyIfSaved ==
    ApReturned =>
        /\ ap.out.value = "True" =>
               \E i \in DOMAIN store :
                   /\ store[i].address = ap.property_data.address
                   /\ store[i].registered_area = ap.property_data.registered_area
        /\ (SaveCalled /\ ap.heard.commit = "error") => ap.out.value = "False"

-----------------------------------------------------------------------------
(* Claims about save_terrain_data, checked under SpecSave *)

SvReturned == sv.pc = "returned"

\* C20: save_terrain_data is atomic per record: on success exactly one new
\* record is added to the store and True is returned; on any error the
\* transaction is rolled back, the store is left unchanged and False is
\* returned; records already in the store are never altered by a save.
C20_SaveIsAtomic ==
    SvReturned =>
        /\ sv.commit = "ok" =>
               /\ sv.value
               /\ Len(store) = Len(sv.before) + 1
               /\ \E id \in 1..(MaxRecords + 1) : store[Len(store)] = LandRecord(id, sv.data)
               /\ \A i \in DOMAIN sv.before : store[Len(store)].id # sv.before[i].id
        /\ sv.commit = "error" => (~sv.value /\ store = sv.before)
        /\ SubSeq(store, 1, Len(sv.before)) = sv.before

\* a save failed on a table that held a record, which is still there
C20_Witness ==
    /\ SvReturned
    /\ sv.commit = "error"
    /\ ~sv.value
    /\ Len(sv.before) = 1
    /\ store = sv.before

-----------------------------------------------------------------------------
(* Claims about the statistics over the store, checked under Spec *)

\* GET /stats has answered, or run_analysis has printed its database summary
StatsShown == last.op \in {"GET /stats", "run_analysis summary"}

\* C21: in the statistics computed over the store (GET /stats and the
\* run_analysis database summary), total_properties equals compliant +
\* underdeclared + overdeclared after any sequence of analyses, and
\* total_potential_evasion equals underdeclared.
C21_TotalIsSumOfLabels ==
    StatsShown =>
        /\ last.body.stats.total_properties =
               last.body.stats.compliant + last.body.stats.underdeclared
                   + last.body.stats.overdeclared
        /\ last.body.stats.total_potential_evasion = last.body.stats.underdeclared

-----------------------------------------------------------------------------
(* Claims about the verdict analyze_property prints, checked under         *)
(* SpecAnalyze                                                              *)

\* C22: analyze_property reports a property as compliant ("Property is
\* compliant") only when the status computed by determine_status is
\* "compliant"; a property whose status is "error" (declared area 0) is
\* never reported as compliant.
C22_CompliantVerdictOnlyForCompliant ==
    ApReturned =>
        /\ ap.out.verdict = "compliant" => ap.out.data.status = "compliant"
        /\ ap.out.data.status = "error" => ap.out.verdict # "compliant"

-----------------------------------------------------------------------------
(* Claims about the API endpoints as views of the store, checked under Spec *)

Views == {"GET /", "GET /health", "GET /properties", "GET /properties/{id}",
          "GET /stats", "GET /export", "POST /analyze", "POST /batch"}

=============================================================================
